---- MODULE Spec2Model ----
(***************************************************************************)
(* Model of BaseConfigManager (src/shared/base-config-manager.js): the     *)
(* nested blockRules structure, initConfigStructure, mergeRemoteConfig,    *)
(* syncWithRemoteConfig, the field-name classifier and buildRegExp; and of *)
(* the background script (src/background.js): fetchDefaultAreaList,        *)
(* mergeDefaultConfigWithExisting, the onInstalled listener and the        *)
(* setConfig message.                                                      *)
(*                                                                         *)
(* JavaScript values are tagged records, so that a string, null, a number, *)
(* an array and an object can sit in the same position and be compared.    *)
(* A string is a sequence of one-character strings; toLowerCase and trim   *)
(* are computed on the characters.                                         *)
(***************************************************************************)
EXTENDS Integers, Sequences, FiniteSets, TLC

VARIABLES
  config,     \* this.config of the BaseConfigManager instance
  storage,    \* chrome.storage.sync: the persisted blockRules value
  op,         \* the synchronous method that ran last: "none" | "init" | "merge"
  pre,        \* this.config when the running/last call started
  arg,        \* the arguments of the last mergeRemoteConfig call
  ret,        \* how the last synchronous call ended (return value or throw)
  pc,         \* position of syncWithRemoteConfig: "idle" | "fetching" | "storing" | "done"
  syncArg,    \* the overwrite argument of the running syncWithRemoteConfig call
  fetched,    \* what fetchRemoteDefaultConfig produced for the running call
  pending,    \* the data handed to chrome.storage.sync.set, not yet acknowledged
  writes,     \* chrome.storage.sync.set calls issued by the running sync call
  ack,        \* how the callback of that set call ran: "none" | "ok" | "error"
  result,     \* the value syncWithRemoteConfig resolved with
  persisted,  \* the persisted blockRules when the running sync call started
  saved,      \* the blockRules of the last setConfig message that was stored
  items,      \* chrome.storage.sync: the keys other than blockRules
  areaPc,     \* position of fetchDefaultAreaList: "idle" | "remote" | "local" | "done"
  consulted,  \* the providers fetchDefaultAreaList has consulted, with their outcomes
  areaWrites, \* the areaList values fetchDefaultAreaList handed to chrome.storage.sync.set
  updPc,      \* position of mergeDefaultConfigWithExisting: "idle" | "reading" | "writing" | "done"
  currentConfig,  \* what its chrome.storage.sync.get(null) read
  defaultConfig,  \* APP_CONSTANTS.DEFAULT_CONFIG
  mergedConfig,   \* what it handed to chrome.storage.sync.set
  updAck      \* how the callback of that set call ran: "none" | "ok" | "error"

mergeVars == <<config, op, pre, arg, ret>>
syncVars == <<storage, pc, syncArg, fetched, pending, writes, ack, result, persisted>>
backgroundVars ==
  <<saved, items, areaPc, consulted, areaWrites, updPc, currentConfig, defaultConfig,
    mergedConfig, updAck>>

vars == <<mergeVars, syncVars, backgroundVars>>

(***************************************************************************)
(* Bounds of the model.                                                    *)
(***************************************************************************)
\* most rules an initial configuration holds, all lists together
MaxLocalRules == 2
\* most entries a remote payload holds, all lists together
MaxRemoteRules == 2
\* most rules the configuration holds when syncWithRemoteConfig is called
MaxSyncRules == 1
\* most rules chrome.storage.sync holds when the extension is updated
MaxStoredRules == 1

(***************************************************************************)
(* JavaScript values.                                                      *)
(***************************************************************************)
Undefined == [t |-> "undefined"]
Null == [t |-> "null"]
Num(n) == [t |-> "number", v |-> n]
Str(cs) == [t |-> "string", v |-> cs]
Arr(s) == [t |-> "array", v |-> s]
Obj(f) == [t |-> "object", v |-> f]
Bool(b) == [t |-> "boolean", v |-> b]

\* ToBoolean: undefined, null, "" and 0 are falsy; arrays and objects are truthy
Truthy(x) ==
  CASE x.t = "undefined" -> FALSE
    [] x.t = "null" -> FALSE
    [] x.t = "string" -> x.v # <<>>
    [] x.t = "number" -> x.v # 0
    [] x.t = "boolean" -> x.v
    [] OTHER -> TRUE

IsArray(x) == x.t = "array"

\* x[key] for a property read: undefined unless x is an object holding key
Get(x, key) ==
  IF x.t = "object" /\ key \in DOMAIN x.v THEN x.v[key] ELSE Undefined

(***************************************************************************)
(* Strings.                                                                *)
(***************************************************************************)
ToLowerCaseChar(c) ==
  CASE c = "A" -> "a"
    [] c = "B" -> "b"
    [] OTHER -> c

ToLowerCase(s) == [i \in 1..Len(s) |-> ToLowerCaseChar(s[i])]

IsWhiteSpace(c) == c = " "

RECURSIVE TrimStart(_)
TrimStart(s) ==
  IF s # <<>> /\ IsWhiteSpace(Head(s)) THEN TrimStart(Tail(s)) ELSE s

RECURSIVE TrimEnd(_)
TrimEnd(s) ==
  IF s # <<>> /\ IsWhiteSpace(s[Len(s)]) THEN TrimEnd(SubSeq(s, 1, Len(s) - 1)) ELSE s

Trim(s) == TrimEnd(TrimStart(s))

(***************************************************************************)
(* The fixed schema.                                                       *)
(***************************************************************************)
platforms == <<"bilibili", "youtube", "twitter">>
ruleTypes == <<"keywords", "blacklist", "whitelist">>

PlatformSet == {platforms[i] : i \in 1..Len(platforms)}
RuleTypeSet == {ruleTypes[i] : i \in 1..Len(ruleTypes)}

EmptyPlatform == Obj([c \in RuleTypeSet |-> Arr(<<>>)])
EmptyBlockRules == Obj([p \in PlatformSet |-> EmptyPlatform])

(***************************************************************************)
(* initConfigStructure.  The class body is strict-mode code, so creating a *)
(* property on a primitive (a truthy blockRules or platform value that is  *)
(* a string or a number) throws a TypeError; what was assigned before the  *)
(* throw stays assigned.  The result is the new this.config and whether    *)
(* the call threw.                                                         *)
(***************************************************************************)
IsPrimitive(x) == x.t \in {"string", "number", "boolean"}

\* x[key] = val on an object x
SetProp(x, key, val) ==
  Obj([k \in (DOMAIN x.v) \cup {key} |-> IF k = key THEN val ELSE x.v[k]])

\* a truthiness test in place of Array.isArray: a non-empty string stays
RECURSIVE InitRuleTypesFalsyTest(_, _)
InitRuleTypesFalsyTest(acc, j) ==
  IF j > Len(ruleTypes) \/ acc.threw THEN acc
  ELSE IF Truthy(Get(acc.pv, ruleTypes[j])) THEN InitRuleTypesFalsyTest(acc, j + 1)
  ELSE IF IsPrimitive(acc.pv) THEN [acc EXCEPT !.threw = TRUE]
  ELSE InitRuleTypesFalsyTest([acc EXCEPT !.pv = SetProp(acc.pv, ruleTypes[j], Arr(<<>>))],
                              j + 1)

\* every category reset to an empty list, whatever it held
RECURSIVE InitRuleTypesResets(_, _)
InitRuleTypesResets(acc, j) ==
  IF j > Len(ruleTypes) \/ acc.threw THEN acc
  ELSE IF IsPrimitive(acc.pv) THEN [acc EXCEPT !.threw = TRUE]
  ELSE InitRuleTypesResets([acc EXCEPT !.pv = SetProp(acc.pv, ruleTypes[j], Arr(<<>>))], j + 1)

\* lines 112-116: the inner forEach over the rule types of one platform
RECURSIVE InitRuleTypes(_, _)
InitRuleTypes(acc, j) ==
  IF j > Len(ruleTypes) \/ acc.threw THEN acc
  ELSE IF IsArray(Get(acc.pv, ruleTypes[j])) THEN InitRuleTypes(acc, j + 1)
  ELSE IF IsPrimitive(acc.pv) THEN [acc EXCEPT !.threw = TRUE]
  ELSE InitRuleTypes([acc EXCEPT !.pv = SetProp(acc.pv, ruleTypes[j], Arr(<<>>))], j + 1)

\* this.config.blockRules[p] after the inner forEach, and whether it threw
InitPlatformDone(br1, p, inner) == [br |-> SetProp(br1, p, inner.pv), threw |-> inner.threw]

\* lines 109-116 for platform p
InitPlatform(br1, p) ==
  InitPlatformDone(br1, p, InitRuleTypes([pv |-> Get(br1, p), threw |-> FALSE], 1))

\* lines 108-117: the forEach over the platforms
RECURSIVE InitPlatforms(_, _)
InitPlatforms(acc, i) ==
  IF i > Len(platforms) \/ acc.threw THEN acc
  ELSE InitPlatforms(
         InitPlatform(IF Truthy(Get(acc.br, platforms[i])) THEN acc.br
                      ELSE SetProp(acc.br, platforms[i], EmptyPlatform),
                      platforms[i]),
         i + 1)

InitDone(cfg, r) == [config |-> [cfg EXCEPT !.blockRules = r.br], threw |-> r.threw]

InitConfigStructure(cfg) ==
  IF Truthy(cfg.blockRules) /\ IsPrimitive(cfg.blockRules)
    THEN [config |-> cfg, threw |-> TRUE]
    ELSE InitDone(cfg, InitPlatforms([br |-> IF Truthy(cfg.blockRules) THEN cfg.blockRules
                                             ELSE EmptyBlockRules,
                                      threw |-> FALSE], 1))

(***************************************************************************)
(* mergeRemoteConfig.                                                      *)
(***************************************************************************)
\* the comparison without toLowerCase
NormalizedKeepsCase(s) == Trim(s)

\* localRule.toLowerCase().trim()
Normalized(s) == Trim(ToLowerCase(s))

\* the local entry compared as stored, only the remote one normalized
RECURSIVE FindIndexRawLocal(_, _, _)
FindIndexRawLocal(localRules, key, i) ==
  IF i > Len(localRules) THEN 0
  ELSE IF localRules[i].t # "string" THEN -1
  ELSE IF localRules[i].v = key THEN i
  ELSE FindIndexRawLocal(localRules, key, i + 1)

\* localRules.findIndex(...) / localRules.some(...): the first index whose entry
\* matches key, 0 when none does, -1 when an entry that is not a string is
\* reached first (localRule.toLowerCase is not a function)
RECURSIVE FindIndex(_, _, _)
FindIndex(localRules, key, i) ==
  IF i > Len(localRules) THEN 0
  ELSE IF localRules[i].t # "string" THEN -1
  ELSE IF Normalized(localRules[i].v) = key THEN i
  ELSE FindIndex(localRules, key, i + 1)

\* the overwrite flag ignored: a matched entry is always replaced
MergeMatchedAlwaysOverwrites(acc, trimmed, existingIndex, overwrite) ==
  CASE existingIndex = -1 -> [acc EXCEPT !.threw = TRUE]
    [] existingIndex = 0 ->
         [acc EXCEPT !.rules = Append(@, Str(trimmed)), !.mergedCount = @ + 1]
    [] OTHER -> [acc EXCEPT !.rules[existingIndex] = Str(trimmed)]

\* an overwritten entry counted as skipped
MergeMatchedCountsOverwrite(acc, trimmed, existingIndex, overwrite) ==
  CASE existingIndex = -1 -> [acc EXCEPT !.threw = TRUE]
    [] existingIndex = 0 ->
         [acc EXCEPT !.rules = Append(@, Str(trimmed)), !.mergedCount = @ + 1]
    [] existingIndex > 0 /\ overwrite ->
         [acc EXCEPT !.rules[existingIndex] = Str(trimmed), !.skippedCount = @ + 1]
    [] OTHER -> [acc EXCEPT !.skippedCount = @ + 1]

\* lines 187-200: the three outcomes for a non-blank remote entry, given the
\* index of its match in the local list
MergeMatched(acc, trimmed, existingIndex, overwrite) ==
  CASE existingIndex = -1 -> [acc EXCEPT !.threw = TRUE]
    [] existingIndex = 0 ->
         [acc EXCEPT !.rules = Append(@, Str(trimmed)), !.mergedCount = @ + 1]
    [] existingIndex > 0 /\ overwrite -> [acc EXCEPT !.rules[existingIndex] = Str(trimmed)]
    [] OTHER -> [acc EXCEPT !.skippedCount = @ + 1]

\* a blank remote entry counted as skipped instead of being passed over
MergeRuleCountsBlank(acc, remoteRule, overwrite) ==
  IF ~Truthy(remoteRule) THEN acc
  ELSE IF remoteRule.t # "string" THEN [acc EXCEPT !.threw = TRUE]
  ELSE IF Trim(remoteRule.v) = <<>> THEN [acc EXCEPT !.skippedCount = @ + 1]
  ELSE MergeMatched(acc, Trim(remoteRule.v),
                    FindIndex(acc.rules, Normalized(remoteRule.v), 1), overwrite)

\* the remote entry pushed as it came, not trimmed
MergeRuleStoresRaw(acc, remoteRule, overwrite) ==
  IF ~Truthy(remoteRule) THEN acc
  ELSE IF remoteRule.t # "string" THEN [acc EXCEPT !.threw = TRUE]
  ELSE IF Trim(remoteRule.v) = <<>> THEN acc
  ELSE MergeMatched(acc, remoteRule.v,
                    FindIndex(acc.rules, Normalized(remoteRule.v), 1), overwrite)

\* lines 180-201, one remote entry.  acc: the local list, the two counters, threw
MergeRule(acc, remoteRule, overwrite) ==
  IF ~Truthy(remoteRule) THEN acc
  ELSE IF remoteRule.t # "string" THEN [acc EXCEPT !.threw = TRUE]
  ELSE IF Trim(remoteRule.v) = <<>> THEN acc
  ELSE MergeMatched(acc, Trim(remoteRule.v),
                    FindIndex(acc.rules, Normalized(remoteRule.v), 1), overwrite)

\* line 180: remoteRules.forEach
RECURSIVE MergeRules(_, _, _, _)
MergeRules(acc, remoteRules, k, overwrite) ==
  IF k > Len(remoteRules) \/ acc.threw THEN acc
  ELSE MergeRules(MergeRule(acc, remoteRules[k], overwrite), remoteRules, k + 1, overwrite)

\* the merged list stored under every platform
MergedListEveryPlatform(st, p, c, r) ==
  [br |-> Obj([q \in DOMAIN st.br.v |-> SetProp(st.br.v[q], c, Arr(r.rules))]),
   mergedCount |-> r.mergedCount,
   skippedCount |-> r.skippedCount,
   threw |-> r.threw]

\* the merge state after one list was merged: localRules is the array inside
\* this.config.blockRules, so the pushes and replacements are in the configuration
MergedList(st, p, c, r) ==
  [br |-> SetProp(st.br, p, SetProp(st.br.v[p], c, Arr(r.rules))),
   mergedCount |-> r.mergedCount,
   skippedCount |-> r.skippedCount,
   threw |-> r.threw]

\* lines 175-201 for one platform and rule type
MergeRuleType(st, remoteRules, p, c, overwrite) ==
  IF ~IsArray(remoteRules) THEN st
  ELSE MergedList(st, p, c,
                  MergeRules([rules |-> st.br.v[p].v[c].v,
                              mergedCount |-> st.mergedCount,
                              skippedCount |-> st.skippedCount,
                              threw |-> FALSE],
                             remoteRules.v, 1, overwrite))

\* lines 174-202: ruleTypes.forEach for one platform.  st: blockRules, counters, threw
RECURSIVE MergeRuleTypes(_, _, _, _, _)
MergeRuleTypes(st, remotePlatform, p, j, overwrite) ==
  IF j > Len(ruleTypes) \/ st.threw THEN st
  ELSE MergeRuleTypes(MergeRuleType(st, Get(remotePlatform, ruleTypes[j]), p, ruleTypes[j],
                                    overwrite),
                      remotePlatform, p, j + 1, overwrite)

\* lines 171-203: platforms.forEach
RECURSIVE MergePlatforms(_, _, _, _)
MergePlatforms(st, remoteBlockRules, i, overwrite) ==
  IF i > Len(platforms) \/ st.threw THEN st
  ELSE IF ~Truthy(Get(remoteBlockRules, platforms[i]))
    THEN MergePlatforms(st, remoteBlockRules, i + 1, overwrite)
  ELSE MergePlatforms(MergeRuleTypes(st, Get(remoteBlockRules, platforms[i]), platforms[i], 1,
                                     overwrite),
                      remoteBlockRules, i + 1, overwrite)

InvalidFormat == "Invalid remote config format"
TypeError == "TypeError"

\* line 205: the return value, or the TypeError that ended the loops
MergeDone(cfg, st) ==
  [config |-> [cfg EXCEPT !.blockRules = st.br],
   kind |-> IF st.threw THEN "throw" ELSE "return",
   error |-> IF st.threw THEN TypeError ELSE "",
   mergedCount |-> st.mergedCount, skippedCount |-> st.skippedCount]

\* lines 165-205, after initConfigStructure
MergeInto(init, remoteBlockRules, overwrite) ==
  IF init.threw
    THEN [config |-> init.config, kind |-> "throw", error |-> TypeError,
          mergedCount |-> 0, skippedCount |-> 0]
    ELSE MergeDone(init.config,
                   MergePlatforms([br |-> init.config.blockRules, mergedCount |-> 0,
                                   skippedCount |-> 0, threw |-> FALSE],
                                  remoteBlockRules, 1, overwrite))

\* the structure initialized before the payload is validated
MergeRemoteConfigInitFirst(cfg, remoteConfig, overwrite) ==
  IF ~Truthy(remoteConfig) \/ ~Truthy(Get(remoteConfig, "blockRules"))
    THEN [config |-> InitConfigStructure(cfg).config, kind |-> "throw",
          error |-> InvalidFormat, mergedCount |-> 0, skippedCount |-> 0]
    ELSE MergeInto(InitConfigStructure(cfg), Get(remoteConfig, "blockRules"), overwrite)

\* the whole method: the new this.config and either the returned counts or the throw
MergeRemoteConfig(cfg, remoteConfig, overwrite) ==
  IF ~Truthy(remoteConfig) \/ ~Truthy(Get(remoteConfig, "blockRules"))
    THEN [config |-> cfg, kind |-> "throw", error |-> InvalidFormat,
          mergedCount |-> 0, skippedCount |-> 0]
    ELSE MergeInto(InitConfigStructure(cfg), Get(remoteConfig, "blockRules"), overwrite)

(***************************************************************************)
(* The configurations and payloads the model starts from and feeds in.     *)
(* Rules sit in the first and in the last list of the schema; every other  *)
(* list is empty, missing or not a list.                                   *)
(***************************************************************************)
Lists(S, n) == UNION {[1..k -> S] : k \in 0..n}

\* the pairs of lists over S holding at most n entries together
ListPairs(S, n) == UNION {{<<l1, l2>> : l2 \in Lists(S, n - Len(l1))} : l1 \in Lists(S, n)}

\* rule texts as a user saved them: plain, upper case with a trailing blank, blank
LocalRules == {Str(<<"a">>), Str(<<"A", " ">>), Str(<<" ">>)}

\* entries of a remote list: blank, padded, upper case, another key, not a string
RemoteEntries == {Str(<<" ">>), Str(<<" ", "a">>), Str(<<"A">>), Str(<<"b">>), Num(7)}

FirstSlot == <<"bilibili", "keywords">>
LastSlot == <<"twitter", "whitelist">>

RulesAt(p, c, l1, l2) ==
  IF <<p, c>> = FirstSlot THEN l1 ELSE IF <<p, c>> = LastSlot THEN l2 ELSE <<>>

\* a complete blockRules holding l1 in the first list and l2 in the last
BlockRulesWith(l1, l2) ==
  Obj([p \in PlatformSet |-> Obj([c \in RuleTypeSet |-> Arr(RulesAt(p, c, l1, l2))])])

DropKey(x, key) == Obj([k \in (DOMAIN x.v) \ {key} |-> x.v[k]])

WellFormedBlockRules ==
  {BlockRulesWith(l[1], l[2]) :
     l \in ListPairs(LocalRules, MaxLocalRules)}

DefectBases ==
  {BlockRulesWith(<<>>, <<>>), BlockRulesWith(<<Str(<<"a">>)>>, <<Str(<<"A", " ">>)>>)}

\* what a list position holds when it is not a list
NotALists == {Null, Str(<<"a">>)}

\* blockRules absent, a platform absent, a category absent or not a list
DefectiveBlockRules ==
  {Undefined}
    \cup {DropKey(b, p) : b \in DefectBases, p \in PlatformSet}
    \cup {SetProp(b, p[1], DropKey(b.v[p[1]], p[2])) :
            b \in DefectBases, p \in PlatformSet \X RuleTypeSet}
    \cup {SetProp(b, p[1], SetProp(b.v[p[1]], p[2], p[3])) :
            b \in DefectBases, p \in PlatformSet \X RuleTypeSet \X NotALists}

InitConfigs == {[blockRules |-> br] : br \in WellFormedBlockRules \cup DefectiveBlockRules}

\* a payload's blockRules naming only the platforms and categories it has entries for
SparseBlockRules(l1, l2) ==
  Obj([p \in {q \in PlatformSet : \E c \in RuleTypeSet : RulesAt(q, c, l1, l2) # <<>>} |->
         Obj([c \in {d \in RuleTypeSet : RulesAt(p, d, l1, l2) # <<>>} |->
                Arr(RulesAt(p, c, l1, l2))])])

Payload(br) == Obj([k \in {"blockRules"} |-> br])

ValidPayloads ==
  {Payload(SparseBlockRules(l[1], l[2])) :
     l \in ListPairs(RemoteEntries, MaxRemoteRules)}
    \cup {Payload(BlockRulesWith(<<>>, <<>>)),
          Payload(BlockRulesWith(<<Str(<<"A">>), Str(<<"b">>)>>, <<>>)),
          Payload(SparseBlockRules(<<Str(<<>>)>>, <<Null>>)),
          Payload(SparseBlockRules(<<Str(<<>>), Str(<<"b">>)>>, <<Str(<<" ", "a">>), Null>>)),
          Payload(Obj([p \in {"bilibili"} |-> Num(7)])),
          Payload(Obj([p \in {"twitter"} |-> Obj([c \in {"whitelist"} |-> Str(<<"a">>)])])),
          Payload(Str(<<"a">>))}

\* undefined, null, {} and {blockRules: null}
InvalidPayloads == {Undefined, Null, Obj(<<>>), Payload(Null)}

RemotePayloads == ValidPayloads \cup InvalidPayloads

(***************************************************************************)
(* State.                                                                  *)
(***************************************************************************)
NoArg == [remoteConfig |-> Undefined, overwrite |-> FALSE]
NoRet == [kind |-> "none", error |-> "", mergedCount |-> 0, skippedCount |-> 0]
NoResult == [settled |-> FALSE]
NoFetch == [ok |-> FALSE, error |-> "", body |-> Undefined]

\* the background script has not run: nothing stored beside blockRules
BackgroundIdle ==
  /\ saved = Undefined
  /\ items = Obj(<<>>)
  /\ areaPc = "idle"
  /\ consulted = <<>>
  /\ areaWrites = <<>>
  /\ updPc = "idle"
  /\ currentConfig = Undefined
  /\ defaultConfig = Undefined
  /\ mergedConfig = Undefined
  /\ updAck = "none"

Init ==
  /\ config \in InitConfigs
  /\ storage = Undefined
  /\ op = "none"
  /\ pre = config
  /\ arg = NoArg
  /\ ret = NoRet
  /\ pc = "idle"
  /\ syncArg = FALSE
  /\ fetched = NoFetch
  /\ pending = Undefined
  /\ writes = 0
  /\ ack = "none"
  /\ result = NoResult
  /\ persisted = storage
  /\ BackgroundIdle

(***************************************************************************)
(* Synchronous calls on the instance.                                      *)
(***************************************************************************)
\* configManager.initConfigStructure()
CallInitConfigStructure ==
  /\ op = "none" /\ pc = "idle"
  /\ \E r \in {InitConfigStructure(config)} :
        /\ config' = r.config
        /\ ret' = [NoRet EXCEPT !.kind = IF r.threw THEN "throw" ELSE "return",
                                !.error = IF r.threw THEN TypeError ELSE ""]
  /\ op' = "init"
  /\ pre' = config
  /\ arg' = NoArg
  /\ UNCHANGED <<syncVars, backgroundVars>>

\* configManager.mergeRemoteConfig(remoteConfig, overwrite)
CallMergeRemoteConfig ==
  /\ op = "none" /\ pc = "idle"
  /\ \E remoteConfig \in RemotePayloads, overwrite \in BOOLEAN :
       /\ \E r \in {MergeRemoteConfig(config, remoteConfig, overwrite)} :
            /\ config' = r.config
            /\ ret' = [kind |-> r.kind, error |-> r.error,
                       mergedCount |-> r.mergedCount, skippedCount |-> r.skippedCount]
       /\ arg' = [remoteConfig |-> remoteConfig, overwrite |-> overwrite]
  /\ op' = "merge"
  /\ pre' = config
  /\ UNCHANGED <<syncVars, backgroundVars>>

\* entries of the list at (p, c); none when no list is there
RulesOf(br, p, c) ==
  LET v == Get(Get(br, p), c) IN IF IsArray(v) THEN v.v ELSE <<>>

\* rules held by a blockRules value, all lists together
RuleCount(br) ==
  LET RECURSIVE Sum(_)
      Sum(n) == IF n = 0 THEN 0
                ELSE Sum(n - 1)
                       + Len(RulesOf(br, platforms[((n - 1) \div Len(ruleTypes)) + 1],
                                     ruleTypes[((n - 1) % Len(ruleTypes)) + 1]))
  IN Sum(Len(platforms) * Len(ruleTypes))

\* the caller has taken the outcome of the call and goes on; the instance is
\* followed further while its rule set stays within the bound
Return ==
  /\ op # "none"
  /\ RuleCount(config.blockRules) <= MaxLocalRules
  /\ op' = "none"
  /\ pre' = config
  /\ arg' = NoArg
  /\ ret' = NoRet
  /\ UNCHANGED <<config, syncVars, backgroundVars>>

Next ==
  \/ CallInitConfigStructure
  \/ CallMergeRemoteConfig
  \/ Return

Spec == Init /\ [][Next]_vars

(***************************************************************************)
(* syncWithRemoteConfig: fetch, merge, persist, with the two awaits as     *)
(* separate steps.                                                         *)
(***************************************************************************)
\* fetchRemoteDefaultConfig: fetch rejects, the status is not 2xx, the body is
\* not JSON, or the parsed body (never undefined) is returned
FetchFailures ==
  {[ok |-> FALSE, error |-> e, body |-> Undefined] :
     e \in {"Failed to fetch", "HTTP 404: Not Found", "Unexpected token in JSON"}}

VersionedPayload ==
  Obj([k \in {"blockRules", "version", "lastUpdated"} |->
         IF k = "blockRules" THEN SparseBlockRules(<<Str(<<"A">>)>>, <<>>) ELSE Str(<<"b">>)])

FetchOutcomes ==
  FetchFailures
    \cup {[ok |-> TRUE, error |-> "", body |-> b] :
            b \in (RemotePayloads \ {Undefined}) \cup {VersionedPayload}}

StorageUnavailable == "Chrome storage not available"
LastError == "chrome.runtime.lastError"

\* no catch block: the error leaves syncWithRemoteConfig
Rethrown(error) == [settled |-> TRUE, thrown |-> error]

\* lines 226-231: the catch block
Caught(error) == [settled |-> TRUE, success |-> FALSE, error |-> error]

\* lines 220-225: the value returned after the write was acknowledged
Succeeded(counts, remoteConfig) ==
  [settled |-> TRUE, success |-> TRUE,
   mergedCount |-> counts.mergedCount, skippedCount |-> counts.skippedCount,
   remoteVersion |-> Get(remoteConfig, "version"),
   lastUpdated |-> Get(remoteConfig, "lastUpdated")]

SyncInit ==
  /\ config \in {c \in InitConfigs : RuleCount(c.blockRules) <= MaxSyncRules}
  /\ storage = config.blockRules
  /\ op = "none"
  /\ pre = config
  /\ arg = NoArg
  /\ ret = NoRet
  /\ pc = "idle"
  /\ syncArg = FALSE
  /\ fetched = NoFetch
  /\ pending = Undefined
  /\ writes = 0
  /\ ack = "none"
  /\ result = NoResult
  /\ persisted = storage
  /\ BackgroundIdle

\* line 212-214: the call, up to the await of fetchRemoteDefaultConfig
SyncStart ==
  /\ pc = "idle" /\ op = "none"
  /\ \E overwrite \in BOOLEAN : syncArg' = overwrite
  /\ pc' = "fetching"
  /\ pre' = config
  /\ persisted' = storage
  /\ UNCHANGED <<config, storage, op, arg, ret, fetched, pending, writes, ack, result>>
  /\ UNCHANGED backgroundVars

\* the write issued although the merge threw
AfterMergeWritesAnyway(r, available) ==
  /\ config' = r.config
  /\ ret' = [kind |-> r.kind, error |-> r.error,
             mergedCount |-> r.mergedCount, skippedCount |-> r.skippedCount]
  /\ IF ~available
       THEN /\ result' = Caught(StorageUnavailable)
            /\ pc' = "done"
            /\ UNCHANGED <<pending, writes>>
       ELSE /\ pending' = r.config.blockRules
            /\ writes' = writes + 1
            /\ pc' = "storing"
            /\ UNCHANGED result

\* lines 215-218 once the merge has run: the throw is caught, or setStorageData
\* rejects at once because chrome.storage is missing, or the write is issued
AfterMerge(r, available) ==
  /\ config' = r.config
  /\ ret' = [kind |-> r.kind, error |-> r.error,
             mergedCount |-> r.mergedCount, skippedCount |-> r.skippedCount]
  /\ IF r.kind = "throw"
       THEN /\ result' = Caught(r.error)
            /\ pc' = "done"
            /\ UNCHANGED <<pending, writes>>
       ELSE IF ~available
         THEN /\ result' = Caught(StorageUnavailable)
              /\ pc' = "done"
              /\ UNCHANGED <<pending, writes>>
         ELSE /\ pending' = r.config.blockRules
              /\ writes' = writes + 1
              /\ pc' = "storing"
              /\ UNCHANGED result

\* the local structure initialized before the fetch is awaited
FetchFailedAfterInit(outcome) ==
  /\ result' = Caught(outcome.error)
  /\ pc' = "done"
  /\ config' = InitConfigStructure(config).config
  /\ UNCHANGED <<op, arg, ret, pending, writes>>

\* line 214 throws (fetchRemoteDefaultConfig rethrows, line 148): the catch
\* block builds the result; nothing else has run
FetchFailed(outcome) ==
  /\ result' = Caught(outcome.error)
  /\ pc' = "done"
  /\ UNCHANGED <<config, op, arg, ret, pending, writes>>

\* line 214 yields the payload: lines 215-218
FetchSucceeded(outcome) ==
  /\ op' = "merge"
  /\ arg' = [remoteConfig |-> outcome.body, overwrite |-> syncArg]
  /\ \E r \in {MergeRemoteConfig(config, outcome.body, syncArg)}, available \in BOOLEAN :
       AfterMerge(r, available)

\* the fetch settles
FetchSettles ==
  /\ pc = "fetching"
  /\ \E outcome \in FetchOutcomes :
       /\ fetched' = outcome
       /\ IF outcome.ok THEN FetchSucceeded(outcome) ELSE FetchFailed(outcome)
  /\ UNCHANGED <<storage, pre, syncArg, ack, persisted, backgroundVars>>

\* the data stored although the callback reports lastError
StorageSettlesStoresOnError ==
  /\ pc = "storing"
  /\ \E lastError \in BOOLEAN :
       /\ IF lastError
            THEN result' = Caught(LastError) /\ ack' = "error"
            ELSE result' = Succeeded(ret, fetched.body) /\ ack' = "ok"
       /\ storage' = pending
  /\ pc' = "done"
  /\ UNCHANGED <<config, op, pre, arg, ret, syncArg, fetched, pending, writes>>
  /\ UNCHANGED <<persisted, backgroundVars>>

\* the callback of chrome.storage.sync.set runs: lines 41-47, then 220-231
StorageSettles ==
  /\ pc = "storing"
  /\ \E lastError \in BOOLEAN :
       IF lastError
         THEN /\ result' = Caught(LastError)
              /\ ack' = "error"
              /\ UNCHANGED storage
         ELSE /\ result' = Succeeded(ret, fetched.body)
              /\ ack' = "ok"
              /\ storage' = pending
  /\ pc' = "done"
  /\ UNCHANGED <<config, op, pre, arg, ret, syncArg, fetched, pending, writes>>
  /\ UNCHANGED <<persisted, backgroundVars>>

\* src/background.js, fetchAndMergeRemoteRules run again after a sync has
\* completed: a new BaseConfigManager whose config is what chrome.storage.sync
\* holds, normalized by initConfigStructure (followed while the stored rule
\* set stays within the bound)
NewInstance ==
  /\ pc = "done"
  /\ RuleCount(storage) <= MaxSyncRules
  /\ \E r \in {InitConfigStructure([blockRules |-> storage])} :
       /\ ~r.threw
       /\ config' = r.config
       /\ pre' = r.config
  /\ pc' = "idle"
  /\ op' = "none"
  /\ arg' = NoArg
  /\ ret' = NoRet
  /\ fetched' = NoFetch
  /\ pending' = Undefined
  /\ writes' = 0
  /\ ack' = "none"
  /\ result' = NoResult
  /\ persisted' = storage
  /\ UNCHANGED <<storage, syncArg, backgroundVars>>

SyncNext ==
  \/ SyncStart
  \/ FetchSettles
  \/ StorageSettles
  \/ NewInstance

SyncSpec == SyncInit /\ [][SyncNext]_vars

(***************************************************************************)
(* The field-name classifier.  A field name is a string, a sequence of     *)
(* characters; String.prototype.includes is the substring test.            *)
(***************************************************************************)
Includes(s, sub) == \E i \in 0..(Len(s) - Len(sub)) : SubSeq(s, i + 1, i + Len(sub)) = sub

\* one of the schema's names as a JavaScript string value
Name(n) == [t |-> "name", v |-> n]

Bili == <<"B", "i", "l", "i">>
Ytb == <<"Y", "t", "b">>
Twitter == <<"T", "w", "i", "t", "t", "e", "r">>
Title == <<"T", "i", "t", "l", "e">>
Users == <<"U", "s", "e", "r", "s">>
White == <<"W", "h", "i", "t", "e">>
UsersWhite == Users \o White

\* lines 77-82
GetPlatformFromConfigKey(configKey) ==
  IF Includes(configKey, Bili) THEN Name("bilibili")
  ELSE IF Includes(configKey, Ytb) THEN Name("youtube")
  ELSE IF Includes(configKey, Twitter) THEN Name("twitter")
  ELSE Null

\* the blacklist test without its exclusion of "White"
GetRuleTypeNoWhiteTest(configKey) ==
  IF Includes(configKey, Title) THEN Name("keywords")
  ELSE IF Includes(configKey, Users) THEN Name("blacklist")
  ELSE IF Includes(configKey, UsersWhite) THEN Name("whitelist")
  ELSE Null

\* lines 87-92
GetRuleTypeFromConfigKey(configKey) ==
  IF Includes(configKey, Title) THEN Name("keywords")
  ELSE IF Includes(configKey, Users) /\ ~Includes(configKey, White) THEN Name("blacklist")
  ELSE IF Includes(configKey, UsersWhite) THEN Name("whitelist")
  ELSE Null

\* most pieces a field name is put together from
MaxKeyPieces == 3

\* the pieces of field names: the prefix, the tokens, and tokens cut in two
KeyPieces == {<<"b", "l", "o", "c", "k">>, Title, Users, White, Bili, Ytb,
              <<"U", "s", "e", "r">>, <<"s">>}

RECURSIVE Concat(_)
Concat(ps) == IF ps = <<>> THEN <<>> ELSE Head(ps) \o Concat(Tail(ps))

ConfigKeys == {Concat(ps) : ps \in Lists(KeyPieces, MaxKeyPieces)}

\* a BaseConfigManager whose configuration plays no part
ClassifierInit ==
  /\ config = [blockRules |-> Undefined]
  /\ storage = Undefined
  /\ op = "none"
  /\ pre = config
  /\ arg = NoArg
  /\ ret = NoRet
  /\ pc = "idle"
  /\ syncArg = FALSE
  /\ fetched = NoFetch
  /\ pending = Undefined
  /\ writes = 0
  /\ ack = "none"
  /\ result = NoResult
  /\ persisted = storage
  /\ BackgroundIdle

\* configManager.getPlatformFromConfigKey(configKey)
CallGetPlatformFromConfigKey ==
  /\ op = "none"
  /\ \E configKey \in ConfigKeys :
       /\ arg' = [configKey |-> configKey]
       /\ ret' = [kind |-> "return", value |-> GetPlatformFromConfigKey(configKey)]
  /\ op' = "getPlatform"
  /\ UNCHANGED <<config, pre, syncVars, backgroundVars>>

\* configManager.getRuleTypeFromConfigKey(configKey)
CallGetRuleTypeFromConfigKey ==
  /\ op = "none"
  /\ \E configKey \in ConfigKeys :
       /\ arg' = [configKey |-> configKey]
       /\ ret' = [kind |-> "return", value |-> GetRuleTypeFromConfigKey(configKey)]
  /\ op' = "getRuleType"
  /\ UNCHANGED <<config, pre, syncVars, backgroundVars>>

ClassifierNext ==
  \/ CallGetPlatformFromConfigKey
  \/ CallGetRuleTypeFromConfigKey
  \/ Return

ClassifierSpec == ClassifierInit /\ [][ClassifierNext]_vars

(***************************************************************************)
(* buildRegExp and the matcher it returns.  The pattern is the string the  *)
(* code builds, backslashes included; RegExpTest interprets it as the      *)
(* regular-expression engine does for the characters of the model: "\"     *)
(* followed by a character is that character, "." is any character, "|"    *)
(* separates alternatives, and the flag i compares letters ignoring case.  *)
(***************************************************************************)
\* the class [.*+?^${}()|[\]\\] of line 66
MetaChars == {".", "*", "+", "?", "^", "$", "{", "}", "(", ")", "|", "[", "]", "\\"}

\* the dot left out of the class
EscapeCharForgetsDot(c) == IF c \in MetaChars \ {"."} THEN <<"\\", c>> ELSE <<c>>

\* replace(..., '\\$&') on one character
EscapeChar(c) == IF c \in MetaChars THEN <<"\\", c>> ELSE <<c>>

RECURSIVE Escape(_)
Escape(k) == IF k = <<>> THEN <<>> ELSE EscapeChar(Head(k)) \o Escape(Tail(k))

\* validRules.map(escape).join('|')
RECURSIVE JoinEscaped(_)
JoinEscaped(validRules) ==
  IF Len(validRules) = 1 THEN Escape(validRules[1].v)
  ELSE Escape(validRules[1].v) \o <<"|">> \o JoinEscaped(Tail(validRules))

\* line 62: rules.filter(rule => rule && rule.trim()); a truthy entry that is
\* not a string has no trim method
RECURSIVE FilterValid(_, _, _)
FilterValid(rules, i, acc) ==
  IF i > Len(rules) \/ acc.threw THEN acc
  ELSE IF ~Truthy(rules[i]) THEN FilterValid(rules, i + 1, acc)
  ELSE IF rules[i].t # "string" THEN [acc EXCEPT !.threw = TRUE]
  ELSE IF Trim(rules[i].v) = <<>> THEN FilterValid(rules, i + 1, acc)
  ELSE FilterValid(rules, i + 1, [acc EXCEPT !.valid = Append(@, rules[i])])

RegExp(pattern, flags) == [t |-> "regexp", source |-> pattern, flags |-> flags]

\* lines 63-67
BuildFromValid(f) ==
  IF f.threw THEN [kind |-> "throw", value |-> Undefined]
  ELSE IF Len(f.valid) = 0 THEN [kind |-> "return", value |-> Null]
  ELSE [kind |-> "return", value |-> RegExp(JoinEscaped(f.valid), "i")]

\* lines 59-68
BuildFromRules(rules) ==
  IF IsArray(rules) /\ Len(rules.v) > 0
    THEN BuildFromValid(FilterValid(rules.v, 1, [valid |-> <<>>, threw |-> FALSE]))
    ELSE [kind |-> "return", value |-> Null]

\* lines 54-72
BuildRegExpFor(cfg, platform, ruleType) ==
  IF /\ Truthy(platform) /\ Truthy(ruleType)
     /\ Truthy(cfg.blockRules) /\ Truthy(Get(cfg.blockRules, platform.v))
    THEN BuildFromRules(Get(Get(cfg.blockRules, platform.v), ruleType.v))
    ELSE [kind |-> "return", value |-> Null]

BuildRegExp(cfg, configKey) ==
  BuildRegExpFor(cfg, GetPlatformFromConfigKey(configKey), GetRuleTypeFromConfigKey(configKey))

\* the positions of the pattern at which an alternative starts
RECURSIVE AltStarts(_, _, _)
AltStarts(pat, i, acc) ==
  IF i > Len(pat) THEN acc
  ELSE IF pat[i] = "\\" THEN AltStarts(pat, i + 2, acc)
  ELSE IF pat[i] = "|" THEN AltStarts(pat, i + 1, acc \cup {i + 1})
  ELSE AltStarts(pat, i + 1, acc)

SameChar(c, d, flags) ==
  IF flags = "i" THEN ToLowerCaseChar(c) = ToLowerCaseChar(d) ELSE c = d

\* the alternative starting at i matches the text from position j on
RECURSIVE MatchHere(_, _, _, _)
MatchHere(re, i, text, j) ==
  IF i > Len(re.source) \/ re.source[i] = "|" THEN TRUE
  ELSE IF j > Len(text) THEN FALSE
  ELSE IF re.source[i] = "\\"
    THEN SameChar(re.source[i + 1], text[j], re.flags) /\ MatchHere(re, i + 2, text, j + 1)
  ELSE IF re.source[i] = "." THEN MatchHere(re, i + 1, text, j + 1)
  ELSE SameChar(re.source[i], text[j], re.flags) /\ MatchHere(re, i + 1, text, j + 1)

\* RegExp.prototype.test: some alternative matches somewhere in the text
RegExpTest(re, text) ==
  \E a \in AltStarts(re.source, 1, {1}), j \in 1..(Len(text) + 1) : MatchHere(re, a, text, j)

\* rule lists as buildRegExp finds them: with a dot, empty, blank, upper case,
\* padded, null
MatcherRules == {Str(<<"a", ".", "b">>), Str(<<>>), Str(<<" ">>), Str(<<"B">>),
                 Str(<<" ", "a">>), Null}

MatcherConfigs ==
  {[blockRules |-> br] :
     br \in {BlockRulesWith(l[1], l[2]) : l \in ListPairs(MatcherRules, MaxLocalRules)}
              \cup DefectiveBlockRules}

\* block<RuleType><Platform>, either part possibly missing
BuildKeys ==
  {<<"b", "l", "o", "c", "k">> \o ty \o pl :
     ty \in {<<>>, Title, Users, UsersWhite}, pl \in {<<>>, Bili, Ytb, Twitter}}

\* the texts the matcher is tried on
Texts == {<<"a", ".", "b">>, <<"a", "X", "b">>, <<"x", "A", ".", "B">>, <<"b">>, <<>>,
          <<" ", "A">>, <<"a">>}

MatcherInit ==
  /\ config \in MatcherConfigs
  /\ storage = Undefined
  /\ op = "none"
  /\ pre = config
  /\ arg = NoArg
  /\ ret = NoRet
  /\ pc = "idle"
  /\ syncArg = FALSE
  /\ fetched = NoFetch
  /\ pending = Undefined
  /\ writes = 0
  /\ ack = "none"
  /\ result = NoResult
  /\ persisted = storage
  /\ BackgroundIdle

\* configManager.buildRegExp(configKey)
CallBuildRegExp ==
  /\ op = "none"
  /\ \E configKey \in BuildKeys :
       /\ arg' = [configKey |-> configKey]
       /\ ret' = BuildRegExp(config, configKey)
  /\ op' = "buildRegExp"
  /\ UNCHANGED <<config, pre, syncVars, backgroundVars>>

\* the caller tries the matcher it was given on a text
CallTest ==
  /\ op = "buildRegExp"
  /\ ret.kind = "return" /\ ret.value # Null
  /\ \E text \in Texts :
       /\ arg' = [configKey |-> arg.configKey, text |-> text]
       /\ ret' = [kind |-> "return", value |-> ret.value,
                  accepted |-> RegExpTest(ret.value, text)]
  /\ op' = "test"
  /\ UNCHANGED <<config, pre, syncVars, backgroundVars>>

MatcherNext ==
  \/ CallBuildRegExp
  \/ CallTest
  \/ Return

MatcherSpec == MatcherInit /\ [][MatcherNext]_vars

(***************************************************************************)
(* chrome.storage.sync as the background script uses it.  storage is the   *)
(* value under blockRules, items the other keys.  Calls take effect in the *)
(* order they are issued: a get reads, and a set that does not fail        *)
(* writes, when it is issued; the callback runs in a later step.           *)
(***************************************************************************)
\* the object chrome.storage.sync.get(null, ...) delivers
Whole(br, its) == IF br = Undefined THEN its ELSE SetProp(its, "blockRules", br)

\* chrome.storage.sync.set(data): the keys of data replace those stored
StoredBlockRules(br, data) == IF "blockRules" \in DOMAIN data.v THEN data.v["blockRules"] ELSE br

StoredItems(its, data) ==
  Obj([k \in (DOMAIN its.v) \cup ((DOMAIN data.v) \ {"blockRules"}) |->
         IF k \in DOMAIN data.v THEN data.v[k] ELSE its.v[k]])

(***************************************************************************)
(* fetchDefaultAreaList (src/background.js 11-29).  The two providers are  *)
(* methods of RemoteConfigManager; each resolves with a list or rejects.   *)
(***************************************************************************)
RemoteAreaList == Arr(<<Str(<<"a">>)>>)
DefaultAreaList == Arr(<<Str(<<"b">>)>>)
StaleAreaList == Arr(<<Str(<<"A">>)>>)

ProviderOutcomes(areaList) ==
  {[ok |-> TRUE, value |-> areaList], [ok |-> FALSE, value |-> Undefined]}

\* chrome.storage.sync.set({ areaList }) without a callback: the write is
\* issued; whether it was stored is not looked at
IssueAreaWrite(areaList) ==
  \E stored \in BOOLEAN :
    /\ areaWrites' = Append(areaWrites, [areaList |-> areaList, stored |-> stored])
    /\ items' = IF stored THEN SetProp(items, "areaList", areaList) ELSE items

\* line 15 settles: line 16, or the catch block up to the await of line 21
AreaRemoteSettles ==
  /\ areaPc = "remote"
  /\ \E outcome \in ProviderOutcomes(RemoteAreaList) :
       /\ consulted' = Append(consulted, [provider |-> "remote", ok |-> outcome.ok,
                                          value |-> outcome.value])
       /\ IF outcome.ok
            THEN IssueAreaWrite(outcome.value) /\ areaPc' = "done"
            ELSE areaPc' = "local" /\ UNCHANGED <<areaWrites, items>>
  /\ UNCHANGED <<mergeVars, syncVars, saved, updPc, currentConfig, defaultConfig,
                 mergedConfig, updAck>>

\* the inner try without its catch: the second failure leaves the function
AreaLocalSettlesNoFallback ==
  /\ areaPc = "local"
  /\ \E outcome \in ProviderOutcomes(DefaultAreaList) :
       /\ consulted' = Append(consulted, [provider |-> "local", ok |-> outcome.ok,
                                          value |-> outcome.value])
       /\ IF outcome.ok
            THEN IssueAreaWrite(outcome.value) /\ areaPc' = "done"
            ELSE areaPc' = "failed" /\ UNCHANGED <<areaWrites, items>>
  /\ UNCHANGED <<mergeVars, syncVars, saved, updPc, currentConfig, defaultConfig,
                 mergedConfig, updAck>>

\* line 21 settles: line 22, or the inner catch block, line 26
AreaLocalSettles ==
  /\ areaPc = "local"
  /\ \E outcome \in ProviderOutcomes(DefaultAreaList) :
       /\ consulted' = Append(consulted, [provider |-> "local", ok |-> outcome.ok,
                                          value |-> outcome.value])
       /\ IssueAreaWrite(IF outcome.ok THEN outcome.value ELSE Arr(<<>>))
  /\ areaPc' = "done"
  /\ UNCHANGED <<mergeVars, syncVars, saved, updPc, currentConfig, defaultConfig,
                 mergedConfig, updAck>>

(***************************************************************************)
(* mergeDefaultConfigWithExisting (src/background.js 127-209).             *)
(***************************************************************************)
\* lines 173-177: defaultRules.forEach with the includes test
RECURSIVE AddDefaultRules(_, _, _)
AddDefaultRules(currentRules, defaultRules, k) ==
  IF k > Len(defaultRules) THEN currentRules
  ELSE IF \E i \in 1..Len(currentRules) : currentRules[i] = defaultRules[k]
    THEN AddDefaultRules(currentRules, defaultRules, k + 1)
  ELSE AddDefaultRules(Append(currentRules, defaultRules[k]), defaultRules, k + 1)

\* lines 159-177 for one platform and rule type the default configuration has;
\* br1, pv1, cur: mergedConfig.blockRules, its platform record and the list
\* after lines 159-167
AddDefaultsInto(acc, p, c, br1, pv1, cur, defaultRules) ==
  IF ~IsArray(defaultRules) \/ ~IsArray(cur) THEN [acc EXCEPT !.threw = TRUE]
  ELSE [acc EXCEPT !.mc = SetProp(acc.mc, "blockRules",
                                  SetProp(br1, p,
                                          SetProp(pv1, c,
                                                  Arr(AddDefaultRules(cur.v, defaultRules.v,
                                                                      1)))))]

AddDefaultsPlatform(acc, p, c, br1, pv1, defaultRules) ==
  AddDefaultsInto(acc, p, c, br1, pv1,
                  IF Truthy(Get(pv1, c)) THEN Get(pv1, c) ELSE Arr(<<>>), defaultRules)

AddDefaultsBlockRules(acc, p, c, br1, defaultRules) ==
  AddDefaultsPlatform(acc, p, c, br1,
                      IF Truthy(Get(br1, p)) THEN Get(br1, p) ELSE EmptyPlatform, defaultRules)

\* lines 157-178
AddDefaults(acc, dbr, p, c) ==
  IF ~Truthy(Get(Get(dbr, p), c)) THEN acc
  ELSE AddDefaultsBlockRules(acc, p, c,
                             IF Truthy(Get(acc.mc, "blockRules")) THEN Get(acc.mc, "blockRules")
                             ELSE Obj(<<>>),
                             Get(Get(dbr, p), c))

\* lines 156-179: ruleTypes.forEach
RECURSIVE AddDefaultRuleTypes(_, _, _, _)
AddDefaultRuleTypes(acc, dbr, p, j) ==
  IF j > Len(ruleTypes) \/ acc.threw THEN acc
  ELSE AddDefaultRuleTypes(AddDefaults(acc, dbr, p, ruleTypes[j]), dbr, p, j + 1)

\* lines 154-181: platforms.forEach
RECURSIVE AddDefaultPlatforms(_, _, _)
AddDefaultPlatforms(acc, dbr, i) ==
  IF i > Len(platforms) \/ acc.threw THEN acc
  ELSE IF ~Truthy(Get(dbr, platforms[i])) THEN AddDefaultPlatforms(acc, dbr, i + 1)
  ELSE AddDefaultPlatforms(AddDefaultRuleTypes(acc, dbr, platforms[i], 1), dbr, i + 1)

configKeysToMerge == <<"autoUpdateEnabled", "autoUpdateInterval", "showIndicator">>

\* the default taken whatever the stored value
MergeKeyAlwaysDefault(mc, dc, key) ==
  IF Get(dc, key) # Undefined THEN SetProp(mc, key, Get(dc, key)) ELSE mc

\* lines 187-189
MergeKey(mc, dc, key) ==
  IF Get(dc, key) # Undefined /\ Get(mc, key) = Undefined
    THEN SetProp(mc, key, Get(dc, key))
    ELSE mc

\* lines 185-190
RECURSIVE MergeKeys(_, _, _)
MergeKeys(mc, dc, n) ==
  IF n > Len(configKeysToMerge) THEN mc
  ELSE MergeKeys(MergeKey(mc, dc, configKeysToMerge[n]), dc, n + 1)

\* lines 150-190 on the copy of the normalized configuration
MergeDefaultsDone(acc, dc) ==
  IF acc.threw THEN [threw |-> TRUE, merged |-> Undefined]
  ELSE [threw |-> FALSE, merged |-> MergeKeys(acc.mc, dc, 1)]

\* lines 139-147: initConfigStructure works on currentConfig itself, and
\* mergedConfig is a shallow copy of it, sharing blockRules
MergeDefaultsFrom(cc, init, dc) ==
  IF init.threw THEN [threw |-> TRUE, merged |-> Undefined]
  ELSE MergeDefaultsDone(
         IF Truthy(Get(dc, "blockRules"))
           THEN AddDefaultPlatforms([mc |-> SetProp(cc, "blockRules", init.config.blockRules),
                                     threw |-> FALSE],
                                    Get(dc, "blockRules"), 1)
           ELSE [mc |-> SetProp(cc, "blockRules", init.config.blockRules), threw |-> FALSE],
         dc)

\* lines 138-190: the configuration to write, or an error for the catch block
MergeDefaultConfig(cc, dc) ==
  MergeDefaultsFrom(cc, InitConfigStructure([blockRules |-> Get(cc, "blockRules")]), dc)

\* lines 132-203, from the callback of get up to the await of set
UpdateReadSettles ==
  /\ updPc = "reading"
  /\ \E r \in {MergeDefaultConfig(currentConfig, defaultConfig)} :
       IF r.threw
         THEN /\ updPc' = "done"
              /\ UNCHANGED <<mergedConfig, updAck, storage, items>>
         ELSE /\ mergedConfig' = r.merged
              /\ updPc' = "writing"
              /\ \E lastError \in BOOLEAN :
                   /\ updAck' = IF lastError THEN "error" ELSE "ok"
                   /\ storage' = IF lastError THEN storage
                                 ELSE StoredBlockRules(storage, r.merged)
                   /\ items' = IF lastError THEN items ELSE StoredItems(items, r.merged)
  /\ UNCHANGED <<mergeVars, pc, syncArg, fetched, pending, writes, ack, result, persisted>>
  /\ UNCHANGED <<saved, areaPc, consulted, areaWrites, currentConfig, defaultConfig>>

\* lines 194-208: the callback of set; a rejection is caught at line 206
UpdateWriteSettles ==
  /\ updPc = "writing"
  /\ updPc' = "done"
  /\ UNCHANGED <<mergeVars, syncVars>>
  /\ UNCHANGED <<saved, items, areaPc, consulted, areaWrites, currentConfig, defaultConfig,
                 mergedConfig, updAck>>

(***************************************************************************)
(* The onInstalled listener (src/background.js 89-124), up to line 115.    *)
(* The statistics of lines 93-100 live in chrome.storage.local; the calls  *)
(* of lines 119 and 123 start after mergeDefaultConfigWithExisting has     *)
(* completed (fetchAndMergeRemoteRules is the subject of SyncSpec).        *)
(***************************************************************************)
Reasons == {"install", "update", "chrome_update"}

\* line 110: chrome.storage.sync.set(defaultConfig), no callback
InstallDefaults ==
  \E stored \in BOOLEAN :
    /\ storage' = IF stored THEN StoredBlockRules(storage, defaultConfig) ELSE storage
    /\ items' = IF stored THEN StoredItems(items, defaultConfig) ELSE items
    /\ UNCHANGED <<updPc, currentConfig>>

\* line 114: mergeDefaultConfigWithExisting runs up to its first await
StartMergeDefaults ==
  /\ currentConfig' = Whole(storage, items)
  /\ updPc' = "reading"
  /\ UNCHANGED <<storage, items>>

OnInstalled ==
  /\ areaPc = "idle" /\ updPc = "idle"
  /\ areaPc' = "remote"
  /\ \E reason \in Reasons :
       CASE reason = "install" -> InstallDefaults
         [] reason = "update" -> StartMergeDefaults
         [] OTHER -> UNCHANGED <<storage, items, updPc, currentConfig>>
  /\ UNCHANGED <<mergeVars, pc, syncArg, fetched, pending, writes, ack, result, persisted>>
  /\ UNCHANGED <<saved, consulted, areaWrites, defaultConfig, mergedConfig, updAck>>

\* what chrome.storage.sync holds under blockRules when the event fires
StoredRuleSets ==
  {c.blockRules : c \in {d \in InitConfigs : RuleCount(d.blockRules) <= MaxStoredRules}}
    \cup {Str(<<"a">>)}

\* the other keys it holds: none; an area list; settings the user chose
StoredItemSets ==
  {Obj(<<>>),
   Obj([k \in {"areaList"} |-> StaleAreaList]),
   Obj([k \in {"areaList", "autoUpdateEnabled", "showIndicator"} |->
          CASE k = "areaList" -> StaleAreaList
            [] k = "autoUpdateEnabled" -> Bool(FALSE)
            [] OTHER -> Null]),
   Obj([k \in {"autoUpdateInterval", "blockTitleBili"} |->
          IF k = "autoUpdateInterval" THEN Num(0) ELSE Str(<<"a">>)])}

DefaultSettings(br) ==
  Obj([k \in {"blockRules", "autoUpdateEnabled", "autoUpdateInterval", "showIndicator"} |->
         CASE k = "blockRules" -> br
           [] k = "autoUpdateInterval" -> Num(7)
           [] OTHER -> Bool(TRUE)])

\* APP_CONSTANTS.DEFAULT_CONFIG: with rules the user may hold already, with
\* rules for one list only, with settings only
DefaultConfigs ==
  {DefaultSettings(BlockRulesWith(<<Str(<<"a">>), Str(<<"b">>)>>, <<Str(<<"A", " ">>)>>)),
   DefaultSettings(SparseBlockRules(<<Str(<<"b">>), Str(<<"b">>)>>, <<>>)),
   Obj([k \in {"autoUpdateEnabled", "areaList"} |->
          IF k = "areaList" THEN Arr(<<>>) ELSE Bool(TRUE)])}

InstallInit ==
  /\ storage \in StoredRuleSets
  /\ items \in StoredItemSets
  /\ defaultConfig \in DefaultConfigs
  /\ config = [blockRules |-> Undefined]
  /\ op = "none"
  /\ pre = config
  /\ arg = NoArg
  /\ ret = NoRet
  /\ pc = "idle"
  /\ syncArg = FALSE
  /\ fetched = NoFetch
  /\ pending = Undefined
  /\ writes = 0
  /\ ack = "none"
  /\ result = NoResult
  /\ persisted = storage
  /\ saved = Undefined
  /\ areaPc = "idle"
  /\ consulted = <<>>
  /\ areaWrites = <<>>
  /\ updPc = "idle"
  /\ currentConfig = Undefined
  /\ mergedConfig = Undefined
  /\ updAck = "none"

InstallNext ==
  \/ OnInstalled
  \/ AreaRemoteSettles
  \/ AreaLocalSettles
  \/ UpdateReadSettles
  \/ UpdateWriteSettles

\* the provider calls fetchDefaultAreaList awaits settle
InstallSpec ==
  /\ InstallInit /\ [][InstallNext]_vars
  /\ WF_vars(AreaRemoteSettles) /\ WF_vars(AreaLocalSettles)

(***************************************************************************)
(* The setConfig message (src/background.js 224-236) arriving while        *)
(* fetchAndMergeRemoteRules (32-60) runs.  Its write takes effect when it  *)
(* is issued.  A message arriving while the write of the sync is pending   *)
(* is stored after that write, as one arriving after the sync completed    *)
(* is; between the read of line 41 and the call of line 50 nothing else    *)
(* runs.  So the message is taken while the fetch is awaited or after the  *)
(* sync has completed.                                                     *)
(***************************************************************************)
\* request.config: a rule set with one rule in the first list, or in the last
UserConfigs ==
  {Obj([k \in {"blockRules"} |-> BlockRulesWith(<<Str(<<"a">>)>>, <<>>)]),
   Obj([k \in {"blockRules", "showIndicator"} |->
          IF k = "blockRules" THEN BlockRulesWith(<<>>, <<Str(<<"A", " ">>)>>)
          ELSE Bool(FALSE)])}

\* lines 224-236: chrome.storage.sync.set(request.config, callback)
SetConfig ==
  /\ pc \in {"fetching", "done"}
  /\ \E request \in UserConfigs, lastError \in BOOLEAN :
       IF lastError
         THEN UNCHANGED <<storage, items, saved>>
         ELSE /\ storage' = StoredBlockRules(storage, request)
              /\ items' = StoredItems(items, request)
              /\ saved' = Get(request, "blockRules")
  /\ UNCHANGED <<mergeVars, pc, syncArg, fetched, pending, writes, ack, result, persisted>>
  /\ UNCHANGED <<areaPc, consulted, areaWrites, updPc, currentConfig, defaultConfig,
                 mergedConfig, updAck>>

\* fetchAndMergeRemoteRules has read a storage holding no rule or one rule
SetConfigInit ==
  /\ SyncInit
  /\ config \in {[blockRules |-> BlockRulesWith(<<>>, <<>>)],
                 [blockRules |-> BlockRulesWith(<<Str(<<"a">>)>>, <<>>)],
                 [blockRules |-> Undefined]}

SetConfigNext ==
  \/ SyncStart
  \/ FetchSettles
  \/ StorageSettles
  \/ NewInstance
  \/ SetConfig

SetConfigSpec == SetConfigInit /\ [][SetConfigNext]_vars

(***************************************************************************)
(* Vocabulary of the properties.                                           *)
(***************************************************************************)
Slots == PlatformSet \X RuleTypeSet

\* the local list at a slot before and after the last call
Before(sl) == RulesOf(pre.blockRules, sl[1], sl[2])
After(sl) == RulesOf(config.blockRules, sl[1], sl[2])

\* the remote list at a slot of the last merge's payload
RemoteBlockRules == Get(arg.remoteConfig, "blockRules")
RemoteAt(sl) == RulesOf(RemoteBlockRules, sl[1], sl[2])

HasBlockRules == arg.remoteConfig.t = "object" /\ RemoteBlockRules.t \notin {"undefined", "null"}

IsPrefix(s, t) == Len(s) <= Len(t) /\ \A i \in 1..Len(s) : t[i] = s[i]

\* a remote entry that is a string and not blank after trimming
NonBlank(e) == e.t = "string" /\ \E i \in 1..Len(e.v) : e.v[i] # " "

\* the comparison key of a text: lower case, surrounding blanks removed
Lower(c) == IF c = "A" THEN "a" ELSE IF c = "B" THEN "b" ELSE c
Unpadded(cs) ==
  LET idx == {i \in 1..Len(cs) : cs[i] # " "}
  IN IF idx = {} THEN <<>>
     ELSE LET lo == CHOOSE i \in idx : \A j \in idx : i <= j
              hi == CHOOSE i \in idx : \A j \in idx : j <= i
          IN [k \in 1..(hi - lo + 1) |-> cs[lo + k - 1]]
KeyOf(e) == [k \in 1..Len(Unpadded(e.v)) |-> Lower(Unpadded(e.v)[k])]

NoDuplicates(l) == \A i, j \in 1..Len(l) : KeyOf(l[i]) = KeyOf(l[j]) => i = j

RECURSIVE SumOver(_, _)
SumOver(S, f) ==
  IF S = {} THEN 0
  ELSE LET x == CHOOSE y \in S : TRUE IN f[x] + SumOver(S \ {x}, f)

\* non-blank entries of the payload in schema positions
NonBlankRemoteCount ==
  SumOver(Slots, [sl \in Slots |->
                    Cardinality({i \in 1..Len(RemoteAt(sl)) : NonBlank(RemoteAt(sl)[i])})])

MergeReturned == op = "merge" /\ ret.kind = "return"

(***************************************************************************)
(* C1.  After mergeRemoteConfig(remote, false) with a payload that has     *)
(* blockRules, every list of the normalized local rule set is a prefix of  *)
(* the resulting list: each entry is at its index with its text unchanged, *)
(* and no list is shorter.                                                 *)
(***************************************************************************)
C1_LocalListsArePrefixes ==
  (op = "merge" /\ ~arg.overwrite /\ HasBlockRules)
    => \A sl \in Slots : IsPrefix(Before(sl), After(sl))

\* a padded upper-case local entry survives a remote entry equal to it up to
\* case and blanks, and a new remote entry is appended behind it
C1_Witness ==
  /\ MergeReturned /\ ~arg.overwrite
  /\ Before(FirstSlot) = <<Str(<<"A", " ">>)>>
  /\ RemoteAt(FirstSlot) = <<Str(<<" ", "a">>), Str(<<"b">>)>>
  /\ After(FirstSlot) = <<Str(<<"A", " ">>), Str(<<"b">>)>>

(***************************************************************************)
(* C2.  For a merge with overwrite=false that returns, mergedCount +       *)
(* skippedCount is the number of non-blank remote entries in the schema's  *)
(* platforms and categories.                                               *)
(***************************************************************************)
C2_CountsAddUp ==
  (MergeReturned /\ ~arg.overwrite)
    => ret.mergedCount + ret.skippedCount = NonBlankRemoteCount

\* one entry skipped in the first list, one merged in the last
C2_Witness ==
  /\ MergeReturned /\ ~arg.overwrite
  /\ ret.mergedCount = 1 /\ ret.skippedCount = 1
  /\ Len(RemoteAt(FirstSlot)) = 1 /\ Len(RemoteAt(LastSlot)) = 1

(***************************************************************************)
(* C3.  As claimed: after mergeRemoteConfig returns, from any starting     *)
(* rule set, no list holds two entries equal up to case and surrounding    *)
(* blanks.                                                                 *)
(***************************************************************************)
C3_Original ==
  MergeReturned => \A sl \in Slots : NoDuplicates(After(sl))

(***************************************************************************)
(* C3, amended.  After mergeRemoteConfig returns (either mode, remote      *)
(* lists that repeat an entry included), a list that held no two equal     *)
(* entries before the merge holds none after it; the merge adds no         *)
(* duplicate and removes none that was there.                              *)
(***************************************************************************)
C3_NoDuplicateAdded ==
  MergeReturned => \A sl \in Slots : NoDuplicates(Before(sl)) => NoDuplicates(After(sl))

\* a remote list repeating an entry in another case lands once
C3_Witness ==
  /\ MergeReturned
  /\ Before(FirstSlot) = <<Str(<<" ">>)>>
  /\ RemoteAt(FirstSlot) = <<Str(<<" ", "a">>), Str(<<"A">>)>>
  /\ Len(After(FirstSlot)) = 2

(***************************************************************************)
(* C4.  With overwrite=true, a non-blank remote entry that matches a local *)
(* entry replaces it, at the first matching position, with its trimmed     *)
(* text (the last such remote entry when several match); every other       *)
(* local entry stays; a list whose remote entries all match keeps its      *)
(* length; skippedCount stays 0 and mergedCount counts only the appended   *)
(* entries, so a merge in which every remote entry matches returns 0 and 0.*)
(***************************************************************************)
Hits(sl, i) ==
  {k \in 1..Len(RemoteAt(sl)) :
     NonBlank(RemoteAt(sl)[k]) /\ KeyOf(RemoteAt(sl)[k]) = KeyOf(Before(sl)[i])}

FirstOfItsKey(sl, i) == \A j \in 1..(i - 1) : KeyOf(Before(sl)[j]) # KeyOf(Before(sl)[i])

Last(S) == CHOOSE k \in S : \A j \in S : j <= k

AllMatch(sl) ==
  \A k \in 1..Len(RemoteAt(sl)) :
    NonBlank(RemoteAt(sl)[k])
      => \E i \in 1..Len(Before(sl)) : KeyOf(Before(sl)[i]) = KeyOf(RemoteAt(sl)[k])

C4_OverwriteReplacesInPlace ==
  (MergeReturned /\ arg.overwrite)
    => /\ \A sl \in Slots :
            /\ Len(After(sl)) >= Len(Before(sl))
            /\ \A i \in 1..Len(Before(sl)) :
                 After(sl)[i] =
                   IF Hits(sl, i) # {} /\ FirstOfItsKey(sl, i)
                     THEN Str(Unpadded(RemoteAt(sl)[Last(Hits(sl, i))].v))
                     ELSE Before(sl)[i]
            /\ AllMatch(sl) => Len(After(sl)) = Len(Before(sl))
       /\ ret.skippedCount = 0
       /\ ret.mergedCount
            = SumOver(Slots, [sl \in Slots |-> Len(After(sl)) - Len(Before(sl))])

\* the padded upper-case local entry takes the remote's trimmed text; counters 0
C4_Witness ==
  /\ MergeReturned /\ arg.overwrite
  /\ Before(FirstSlot) = <<Str(<<"A", " ">>)>>
  /\ RemoteAt(FirstSlot) = <<Str(<<" ", "a">>)>>
  /\ After(FirstSlot) = <<Str(<<"a">>)>>
  /\ ret.mergedCount = 0 /\ ret.skippedCount = 0

(***************************************************************************)
(* C5.  mergeRemoteConfig with a payload that is null or undefined or has  *)
(* no blockRules throws the invalid-format error and leaves this.config    *)
(* as it was: nothing changed, nothing normalized.                         *)
(***************************************************************************)
C5_InvalidPayloadRejected ==
  (op = "merge" /\ ~HasBlockRules)
    => /\ ret.kind = "throw" /\ ret.error = InvalidFormat
       /\ config = pre

\* {} merged into a configuration without blockRules: still without blockRules
C5_Witness ==
  /\ op = "merge" /\ arg.remoteConfig = Obj(<<>>)
  /\ pre.blockRules = Undefined
  /\ config.blockRules = Undefined
  /\ ret.kind = "throw"

(***************************************************************************)
(* C6.  After initConfigStructure, and after a mergeRemoteConfig that      *)
(* returned, from any configuration (blockRules absent, a platform absent, *)
(* a category absent or not a list), blockRules holds the three platforms, *)
(* each with the three categories, each a list; initConfigStructure does   *)
(* not throw.                                                              *)
(***************************************************************************)
FullyPopulated(br) ==
  /\ br.t = "object"
  /\ \A p \in PlatformSet :
       /\ Get(br, p).t = "object"
       /\ \A c \in RuleTypeSet : Get(Get(br, p), c).t = "array"

C6_StructureComplete ==
  /\ (op = "init" \/ MergeReturned) => FullyPopulated(config.blockRules)
  /\ op = "init" => ret.kind = "return"

\* a category that held a string holds a list after initConfigStructure
C6_Witness ==
  /\ op = "init" /\ ret.kind = "return"
  /\ Get(Get(pre.blockRules, "youtube"), "blacklist") = Str(<<"a">>)
  /\ Get(Get(config.blockRules, "youtube"), "blacklist") = Arr(<<>>)

(***************************************************************************)
(* C7.  initConfigStructure is idempotent: applied to its own result it    *)
(* changes nothing, and applied to a complete structure it changes         *)
(* nothing; a category that is a list keeps its entries.                   *)
(***************************************************************************)
C7_InitIdempotent ==
  op = "init"
    => /\ InitConfigStructure(config) = [config |-> config, threw |-> FALSE]
       /\ FullyPopulated(pre.blockRules) => config = pre
       /\ \A sl \in Slots : After(sl) = Before(sl)

\* a complete structure holding two rules, after initConfigStructure
C7_Witness ==
  /\ op = "init"
  /\ FullyPopulated(pre.blockRules)
  /\ Len(Before(FirstSlot)) = 1 /\ Len(Before(LastSlot)) = 1
  /\ config = pre

(***************************************************************************)
(* C8.  As claimed: in a merge, a platform absent from remote.blockRules   *)
(* is untouched, its record after the merge identical to the one before.   *)
(***************************************************************************)
AbsentFromRemote(p) == Get(RemoteBlockRules, p).t \in {"undefined", "null"}

C8_Original ==
  (op = "merge" /\ HasBlockRules)
    => \A p \in PlatformSet :
         AbsentFromRemote(p) => Get(config.blockRules, p) = Get(pre.blockRules, p)

(***************************************************************************)
(* C8, amended.  In a merge with a payload that has blockRules, a platform *)
(* absent from remote.blockRules keeps every entry of its three lists; the *)
(* only change to it is that of initConfigStructure: a missing record, a   *)
(* missing category or one that is not a list becomes an empty list.       *)
(***************************************************************************)
C8_AbsentPlatformOnlyNormalized ==
  (op = "merge" /\ HasBlockRules)
    => \A p \in PlatformSet :
         AbsentFromRemote(p)
           => Get(config.blockRules, p)
                = Obj([c \in RuleTypeSet |-> Arr(RulesOf(pre.blockRules, p, c))])

\* twitter is not in the payload and keeps its rule while bilibili gains one
C8_Witness ==
  /\ MergeReturned /\ HasBlockRules
  /\ AbsentFromRemote("twitter")
  /\ Before(LastSlot) = <<Str(<<"A", " ">>)>>
  /\ After(LastSlot) = <<Str(<<"A", " ">>)>>
  /\ Len(After(FirstSlot)) = Len(Before(FirstSlot)) + 1

(***************************************************************************)
(* C9.  When the fetch fails (the request is rejected, the status is not   *)
(* 2xx), syncWithRemoteConfig resolves with {success: false, error}, the   *)
(* in-memory configuration is the one the call started with and no storage *)
(* write was issued.                                                       *)
(***************************************************************************)
C9_FetchFailureMutatesNothing ==
  (pc = "done" /\ ~fetched.ok)
    => /\ result = [settled |-> TRUE, success |-> FALSE, error |-> fetched.error]
       /\ config = pre
       /\ writes = 0 /\ pending = Undefined /\ ack = "none"

\* a 404 answer; the configuration still has no blockRules
C9_Witness ==
  /\ pc = "done"
  /\ fetched = [ok |-> FALSE, error |-> "HTTP 404: Not Found", body |-> Undefined]
  /\ config.blockRules = Undefined

(***************************************************************************)
(* C10.  syncWithRemoteConfig never fails outward: whatever the fetch, the *)
(* merge and the storage write do, the call ends with a result value; the  *)
(* result is {success: false, error} when a step failed, and success is    *)
(* true only when the fetch, the merge and the write all succeeded; while  *)
(* the call is awaiting, the awaited step can settle.                      *)
(***************************************************************************)
C10_SyncNeverThrows ==
  /\ pc = "done"
       => /\ "success" \in DOMAIN result
          /\ result.success
               <=> (fetched.ok /\ ret.kind = "return" /\ writes = 1 /\ ack = "ok")
          /\ ~result.success => DOMAIN result = {"settled", "success", "error"}
          /\ result.success => storage = config.blockRules
  /\ pc = "fetching" => ENABLED FetchSettles
  /\ pc = "storing" => ENABLED StorageSettles

\* the merge returned and the write was rejected: a failure result
C10_Witness ==
  /\ pc = "done"
  /\ fetched.ok /\ ret.kind = "return" /\ ack = "error"
  /\ result = [settled |-> TRUE, success |-> FALSE, error |-> LastError]

(***************************************************************************)
(* C11.  As claimed: whenever syncWithRemoteConfig resolves with           *)
(* success=false, the persisted blockRules are those persisted before the  *)
(* call and every rule that was in a local list before the call is still   *)
(* in that list; this.config changes only after a successful fetch and a   *)
(* passed format check; a storage write is issued only after the merge     *)
(* has returned.                                                           *)
(***************************************************************************)
SyncFailed == pc = "done" /\ ~result.success

FormatCheckPassed == Truthy(fetched.body) /\ Truthy(Get(fetched.body, "blockRules"))

MutatedOnlyAfterFetchAndCheck == config # pre => (fetched.ok /\ FormatCheckPassed)

WriteOnlyAfterMerge ==
  /\ writes \in {0, 1}
  /\ writes = 1 => /\ op = "merge" /\ ret.kind = "return"
                   /\ pending = config.blockRules
  /\ pc = "storing" => writes = 1

StillHolds(sl, i) == \E j \in 1..Len(After(sl)) : After(sl)[j] = Before(sl)[i]

C11_Original ==
  /\ SyncFailed => /\ storage = persisted
                   /\ \A sl \in Slots : \A i \in 1..Len(Before(sl)) : StillHolds(sl, i)
  /\ MutatedOnlyAfterFetchAndCheck
  /\ WriteOnlyAfterMerge

(***************************************************************************)
(* C11, amended.  Whenever syncWithRemoteConfig resolves with              *)
(* success=false, the persisted blockRules are those persisted before the  *)
(* call; with overwrite=false every local rule is still in its list, at    *)
(* its position, with its text; with overwrite=true every local rule is    *)
(* still at its position, with its text or - when a remote entry matched   *)
(* it before the failure - replaced by an entry equal to it up to case and *)
(* surrounding blanks.  this.config changes only after a successful fetch  *)
(* and a passed format check; a storage write is issued only after the     *)
(* merge has returned.                                                     *)
(***************************************************************************)
KeptOrOverwritten(sl, i) ==
  /\ i <= Len(After(sl))
  /\ \/ After(sl)[i] = Before(sl)[i]
     \/ /\ syncArg
        /\ KeyOf(After(sl)[i]) = KeyOf(Before(sl)[i])
        /\ \E k \in 1..Len(RemoteAt(sl)) :
             /\ NonBlank(RemoteAt(sl)[k])
             /\ After(sl)[i] = Str(Unpadded(RemoteAt(sl)[k].v))

C11_FailedSyncLosesNoRule ==
  /\ SyncFailed => /\ storage = persisted
                   /\ \A sl \in Slots : \A i \in 1..Len(Before(sl)) : KeptOrOverwritten(sl, i)
  /\ MutatedOnlyAfterFetchAndCheck
  /\ WriteOnlyAfterMerge

\* the merge appended an entry behind the local rule, then the write failed:
\* the rule is still there and storage is what it was
C11_Witness ==
  /\ SyncFailed /\ ack = "error"
  /\ Before(FirstSlot) = <<Str(<<"A", " ">>)>>
  /\ After(FirstSlot) = <<Str(<<"A", " ">>), Str(<<"b">>)>>
  /\ storage = persisted
  /\ storage # config.blockRules

(***************************************************************************)
(* C12.  When the fetch succeeded and the merge returned but the write     *)
(* failed (chrome.storage missing, or lastError in the callback), the      *)
(* result is {success: false, error} and nothing else (no counts);         *)
(* this.config holds the merged entries (as many more rules than what is   *)
(* persisted as the merge counted); storage holds what it held before.     *)
(***************************************************************************)
WriteFailed == pc = "done" /\ fetched.ok /\ ret.kind = "return" /\ ack # "ok"

C12_WriteFailureKeepsMerge ==
  WriteFailed
    => /\ result \in {[settled |-> TRUE, success |-> FALSE, error |-> e] :
                        e \in {LastError, StorageUnavailable}}
       /\ (ack = "error") <=> (result.error = LastError)
       /\ storage = persisted
       /\ \A sl \in Slots : Len(After(sl)) >= Len(Before(sl))
       /\ ret.mergedCount = SumOver(Slots, [sl \in Slots |-> Len(After(sl)) - Len(Before(sl))])
       /\ RuleCount(config.blockRules) = RuleCount(persisted) + ret.mergedCount

\* one entry merged in memory, the callback reported lastError: storage still
\* holds no rule
C12_Witness ==
  /\ WriteFailed /\ ack = "error"
  /\ ret.mergedCount = 1
  /\ RuleCount(config.blockRules) = 1
  /\ RuleCount(storage) = 0

(***************************************************************************)
(* C13.  As claimed: getRuleTypeFromConfigKey classifies every field name  *)
(* that contains "Users" and contains "White" as whitelist, whatever else  *)
(* it contains and wherever the two tokens stand.                          *)
(***************************************************************************)
Classified == op = "getRuleType"

HasBothTokens == Includes(arg.configKey, Users) /\ Includes(arg.configKey, White)

C13_Original ==
  (Classified /\ HasBothTokens) => ret.value = Name("whitelist")

(***************************************************************************)
(* C13, amended.  A field name that contains "Users" and contains "White"  *)
(* is never classified as blacklist; it is classified as whitelist exactly *)
(* when it contains "UsersWhite" in one piece and does not contain         *)
(* "Title"; with "Title" it is keywords, otherwise none.                   *)
(***************************************************************************)
C13_BothTokensNeverBlacklist ==
  (Classified /\ HasBothTokens)
    => /\ ret.value # Name("blacklist")
       /\ ret.value = Name("whitelist")
            <=> (Includes(arg.configKey, UsersWhite) /\ ~Includes(arg.configKey, Title))
       /\ Includes(arg.configKey, Title) => ret.value = Name("keywords")
       /\ (~Includes(arg.configKey, UsersWhite) /\ ~Includes(arg.configKey, Title))
            => ret.value = Null

\* the field name blockUsersWhite
C13_Witness ==
  /\ Classified
  /\ arg.configKey = <<"b", "l", "o", "c", "k">> \o UsersWhite
  /\ ret.value = Name("whitelist")

(***************************************************************************)
(* C14.  buildRegExp returns null when the field name does not resolve to  *)
(* a platform and a category, when blockRules or the platform is missing,  *)
(* or when the list has no entry that is non-blank after trimming;         *)
(* otherwise it returns a matcher, and the matcher accepts a text exactly  *)
(* when some non-blank entry, as stored, occurs in the text as a literal   *)
(* substring ignoring case: "a.b" accepts "a.b" and rejects "aXb".         *)
(***************************************************************************)
Resolved ==
  /\ GetPlatformFromConfigKey(arg.configKey) # Null
  /\ GetRuleTypeFromConfigKey(arg.configKey) # Null

\* the list the field name stands for; none when anything on the way is missing
EntriesOfKey ==
  IF Resolved
    THEN RulesOf(config.blockRules, GetPlatformFromConfigKey(arg.configKey).v,
                 GetRuleTypeFromConfigKey(arg.configKey).v)
    ELSE <<>>

NonBlankEntries == {i \in 1..Len(EntriesOfKey) : NonBlank(EntriesOfKey[i])}

Occurs(e, text) ==
  \E j \in 0..(Len(text) - Len(e)) : \A k \in 1..Len(e) : Lower(text[j + k]) = Lower(e[k])

C14_MatcherIsLiteralAlternation ==
  /\ op = "buildRegExp"
       => /\ ret.kind = "return"
          /\ ret.value = Null <=> NonBlankEntries = {}
  /\ op = "test"
       => (ret.accepted <=> \E i \in NonBlankEntries : Occurs(EntriesOfKey[i].v, arg.text))

\* the list ["a.b", ""] tried on "aXb": rejected
C14_Witness ==
  /\ op = "test"
  /\ EntriesOfKey = <<Str(<<"a", ".", "b">>), Str(<<>>)>>
  /\ arg.text = <<"a", "X", "b">>
  /\ ~ret.accepted

(***************************************************************************)
(* C15.  fetchDefaultAreaList never fails outward and, once started,       *)
(* completes, having issued exactly one write of areaList: the remote list *)
(* if the remote fetch succeeded, otherwise the local default list if      *)
(* obtaining it succeeded, otherwise the empty list; the local provider is *)
(* consulted only after the remote one failed, and no write is issued      *)
(* before the function is through.  Completion is under the assumption     *)
(* that the awaited provider call settles.                                 *)
(***************************************************************************)
\* the list of the first provider that succeeded, the empty list when none did
FirstAvailable ==
  IF \E n \in 1..Len(consulted) : consulted[n].ok
    THEN consulted[CHOOSE n \in 1..Len(consulted) :
                     consulted[n].ok /\ \A m \in 1..(n - 1) : ~consulted[m].ok].value
    ELSE Arr(<<>>)

AreaCascade ==
  /\ areaPc \in {"idle", "remote", "local", "done"}
  /\ Len(consulted) <= 2
  /\ Len(consulted) >= 1 => consulted[1].provider = "remote"
  /\ Len(consulted) = 2 => consulted[2].provider = "local" /\ ~consulted[1].ok
  /\ areaPc # "done" => areaWrites = <<>>
  /\ areaPc = "done"
       => /\ Len(areaWrites) = 1
          /\ areaWrites[1].areaList = FirstAvailable
          /\ Len(consulted) = IF consulted[1].ok THEN 1 ELSE 2

C15_AreaListCascade ==
  /\ []AreaCascade
  /\ (areaPc = "remote") ~> (areaPc = "done")

\* both providers failed: one write, of the empty list
C15_Witness ==
  /\ areaPc = "done"
  /\ Len(consulted) = 2 /\ ~consulted[1].ok /\ ~consulted[2].ok
  /\ areaWrites = <<[areaList |-> Arr(<<>>), stored |-> TRUE]>>

(***************************************************************************)
(* C16.  After a merge that returned (either mode), what a local list      *)
(* gained stands behind all entries it had; there is one gained entry for  *)
(* each non-blank remote entry whose key (lower case, trimmed) no local    *)
(* entry had and no earlier remote entry of the list had, in the order of  *)
(* the remote list, each non-empty and trimmed.  With overwrite=false the  *)
(* gained entry is that first remote entry, trimmed; with overwrite=true a *)
(* later remote entry of the same key is not appended either, it replaces  *)
(* the text of the gained entry.                                           *)
(***************************************************************************)
Appended(sl) == SubSeq(After(sl), Len(Before(sl)) + 1, Len(After(sl)))

\* the remote entry at k is the first of its key and the key is new to the list
FirstNew(sl, k) ==
  /\ NonBlank(RemoteAt(sl)[k])
  /\ \A i \in 1..Len(Before(sl)) : KeyOf(Before(sl)[i]) # KeyOf(RemoteAt(sl)[k])
  /\ \A m \in 1..(k - 1) :
       NonBlank(RemoteAt(sl)[m]) => KeyOf(RemoteAt(sl)[m]) # KeyOf(RemoteAt(sl)[k])

RECURSIVE ExpectedFrom(_, _)
ExpectedFrom(sl, k) ==
  IF k > Len(RemoteAt(sl)) THEN <<>>
  ELSE IF FirstNew(sl, k)
    THEN <<Str(Unpadded(RemoteAt(sl)[k].v))>> \o ExpectedFrom(sl, k + 1)
  ELSE ExpectedFrom(sl, k + 1)

IsTrimmed(e) == e.t = "string" /\ e.v # <<>> /\ e.v[1] # " " /\ e.v[Len(e.v)] # " "

\* the last non-blank remote entry of the list with the key of e, trimmed
LastOfKey(sl, e) ==
  Str(Unpadded(RemoteAt(sl)[Last({k \in 1..Len(RemoteAt(sl)) :
                                    /\ NonBlank(RemoteAt(sl)[k])
                                    /\ KeyOf(RemoteAt(sl)[k]) = KeyOf(e)})].v))

C16_AppendedAreFirstNewTrimmed ==
  MergeReturned
    => \A sl \in Slots :
         /\ Len(After(sl)) >= Len(Before(sl))
         /\ Len(Appended(sl)) = Len(ExpectedFrom(sl, 1))
         /\ \A n \in 1..Len(Appended(sl)) :
              /\ IsTrimmed(Appended(sl)[n])
              /\ KeyOf(Appended(sl)[n]) = KeyOf(ExpectedFrom(sl, 1)[n])
              /\ Appended(sl)[n] = IF arg.overwrite
                                     THEN LastOfKey(sl, ExpectedFrom(sl, 1)[n])
                                     ELSE ExpectedFrom(sl, 1)[n]

\* " a" then "A" merged into an empty list: one entry, the first, trimmed
C16_Witness ==
  /\ MergeReturned /\ ~arg.overwrite
  /\ Before(FirstSlot) = <<>>
  /\ RemoteAt(FirstSlot) = <<Str(<<" ", "a">>), Str(<<"A">>)>>
  /\ After(FirstSlot) = <<Str(<<"a">>)>>

(***************************************************************************)
(* C18.  Non-overwrite merge is idempotent: after mergeRemoteConfig(remote,*)
(* false) has returned, the same call once more returns mergedCount 0 and  *)
(* skippedCount equal to the number of non-blank remote entries in schema  *)
(* positions, and leaves this.config as it is.                             *)
(***************************************************************************)
SecondMerge == MergeRemoteConfig(config, arg.remoteConfig, FALSE)

C18_SecondMergeAddsNothing ==
  (MergeReturned /\ ~arg.overwrite)
    => \A again \in {SecondMerge} :
         /\ again.kind = "return"
         /\ again.mergedCount = 0
         /\ again.skippedCount = NonBlankRemoteCount
         /\ again.config = config

\* the first merge appended "A" and "b"; the second skips both
C18_Witness ==
  /\ MergeReturned /\ ~arg.overwrite
  /\ RemoteAt(FirstSlot) = <<Str(<<"A">>), Str(<<"b">>)>>
  /\ ret.mergedCount = 2
  /\ SecondMerge.mergedCount = 0 /\ SecondMerge.skippedCount = 2

(***************************************************************************)
(* C17.  mergeDefaultConfigWithExisting does not overwrite user data: in   *)
(* the configuration it hands to chrome.storage.sync.set, every key that   *)
(* was read, other than blockRules, has the value that was read; every     *)
(* list of blockRules starts with the entries that were read, in place;    *)
(* an entry behind them is a default rule of that list, identical to no    *)
(* entry before it; autoUpdateEnabled, autoUpdateInterval and              *)
(* showIndicator have the default value only where none was read; no       *)
(* other key is added.  When the write fails the function still completes. *)
(***************************************************************************)
ConfigWritten == updPc \in {"writing", "done"} /\ mergedConfig # Undefined

ReadRules(sl) == RulesOf(Get(currentConfig, "blockRules"), sl[1], sl[2])
WrittenRules(sl) == RulesOf(Get(mergedConfig, "blockRules"), sl[1], sl[2])
DefaultRules(sl) == RulesOf(Get(defaultConfig, "blockRules"), sl[1], sl[2])

SettingKeys == {configKeysToMerge[n] : n \in 1..Len(configKeysToMerge)}

C17_DefaultsOverwriteNothing ==
  /\ ConfigWritten
       => /\ \A k \in (DOMAIN currentConfig.v) \ {"blockRules"} :
               Get(mergedConfig, k) = currentConfig.v[k]
          /\ (DOMAIN mergedConfig.v)
               \subseteq (DOMAIN currentConfig.v) \cup {"blockRules"} \cup SettingKeys
          /\ \A sl \in Slots :
               /\ IsPrefix(ReadRules(sl), WrittenRules(sl))
               /\ \A n \in (Len(ReadRules(sl)) + 1)..Len(WrittenRules(sl)) :
                    /\ \E d \in 1..Len(DefaultRules(sl)) : DefaultRules(sl)[d] = WrittenRules(sl)[n]
                    /\ \A m \in 1..(n - 1) : WrittenRules(sl)[m] # WrittenRules(sl)[n]
          /\ \A k \in SettingKeys :
               Get(mergedConfig, k) = IF Get(currentConfig, k) # Undefined
                                        THEN Get(currentConfig, k)
                                        ELSE Get(defaultConfig, k)
  /\ updPc \in {"idle", "reading", "writing", "done"}
  /\ updPc = "writing" => ENABLED UpdateWriteSettles

\* the user's "A " and the setting false are kept, the defaults "a" and "b"
\* follow, the missing interval is taken; the write failed and the function
\* is through
C17_Witness ==
  /\ ConfigWritten /\ updPc = "done" /\ updAck = "error"
  /\ ReadRules(FirstSlot) = <<Str(<<"A", " ">>)>>
  /\ WrittenRules(FirstSlot) = <<Str(<<"A", " ">>), Str(<<"a">>), Str(<<"b">>)>>
  /\ Get(currentConfig, "autoUpdateEnabled") = Bool(FALSE)
  /\ Get(mergedConfig, "autoUpdateEnabled") = Bool(FALSE)
  /\ Get(currentConfig, "autoUpdateInterval") = Undefined
  /\ Get(mergedConfig, "autoUpdateInterval") = Num(7)

(***************************************************************************)
(* C19.  A rule set saved through the setConfig message is not lost to a   *)
(* background sync (overwrite=false, as fetchAndMergeRemoteRules calls     *)
(* it): whenever the sync has completed, every rule of the rule set the    *)
(* user saved last is in the persisted list it was saved in.               *)
(***************************************************************************)
SavedRuleIsStored(sl, i) ==
  \E j \in 1..Len(RulesOf(storage, sl[1], sl[2])) :
    RulesOf(storage, sl[1], sl[2])[j] = RulesOf(saved, sl[1], sl[2])[i]

C19_SavedRulesSurviveSync ==
  (pc = "done" /\ ~syncArg /\ saved # Undefined)
    => \A sl \in Slots : \A i \in 1..Len(RulesOf(saved, sl[1], sl[2])) : SavedRuleIsStored(sl, i)

(***************************************************************************)
(* C20.  After an onInstalled event with reason update, once               *)
(* fetchDefaultAreaList and mergeDefaultConfigWithExisting have both       *)
(* completed, the persisted areaList is the list fetchDefaultAreaList      *)
(* wrote (given that its write was stored), not the value                  *)
(* mergeDefaultConfigWithExisting read earlier.                            *)
(***************************************************************************)
BothCompleted == areaPc = "done" /\ updPc = "done"

C20_AreaListSurvivesUpdate ==
  (BothCompleted /\ areaWrites[1].stored)
    => Get(items, "areaList") = areaWrites[1].areaList

====
